---- MODULE Spec2Model ----
(***************************************************************************)
(* Model of clearaml/tuning/base.py: the distribution descriptors Choice,  *)
(* Uniform and Normal, the abstract ParamsTuner with its best_params       *)
(* property, and DefaultTuner.fit.                                         *)
(*                                                                         *)
(* Python objects are modelled by their attribute dictionaries.  A tuner   *)
(* has no __init__, so a new instance has an empty instance dictionary and *)
(* every attribute read goes through the classes of its MRO.               *)
(***************************************************************************)
EXTENDS Integers, Sequences, FiniteSets, TLC

VARIABLES
    classDict,   \* class name -> attributes defined in the class body
    constructed, \* the tuner instances that exist
    inst,        \* tuner -> instance dictionary (attribute name -> value)
    nFits,       \* number of DefaultTuner.fit calls made so far
    fitCalled,   \* the tuners on which fit has been called at least once
    calls,       \* algorithm -> number of init_params_on_input invocations
    lastCall,    \* the last init_params_on_input invocation
    lastFit,     \* the last fit call and how it ended
    lastRead,    \* the last read of best_params and how it ended
    lastReturned,\* tuner -> algorithm and result of its last fit call that returned
    dist         \* the last distribution descriptor constructed

tunerVars == <<classDict, constructed, inst, nFits, fitCalled, calls, lastCall,
               lastFit, lastRead, lastReturned>>
vars == <<classDict, constructed, inst, nFits, fitCalled, calls, lastCall,
          lastFit, lastRead, lastReturned, dist>>

----------------------------------------------------------------------------
(* Bounds *)

MaxFits == 2
MaxOptions == 2

----------------------------------------------------------------------------
(* Python values *)

PyNone == [kind |-> "None"]
PyBool(b) == [kind |-> "bool", v |-> b]
PyInt(n) == [kind |-> "int", v |-> n]
PyStr(s) == [kind |-> "str", v |-> s]
PyDict(d) == [kind |-> "dict", v |-> d]
PyList(s) == [kind |-> "list", v |-> s]
PyRef(o) == [kind |-> "object", v |-> o]

\* a keyword argument the caller left out
Omitted == [kind |-> "omitted"]

NoDict == [n \in {} |-> PyNone]

----------------------------------------------------------------------------
(* Inputs *)

Tuners == {"t1", "t2"}
Algos == {"algoA", "algoB"}
Iterators == {PyNone, PyRef("cv1")}

ParamNames == {"lr", "depth"}
ParamValues == {1, 2}

\* every parameter mapping over ParamNames, the empty one included
ParamMappings == UNION {[D -> ParamValues] : D \in SUBSET ParamNames}

\* what one invocation of ml_algo.init_params_on_input can do
AlgoOutcomes ==
    {[raised |-> FALSE, value |-> PyDict(P)] : P \in ParamMappings}
        \cup {[raised |-> TRUE, value |-> PyStr("AlgoError")]}

----------------------------------------------------------------------------
(* Attribute lookup on a DefaultTuner instance *)

\* class DefaultTuner(ParamsTuner)
MRO == <<"DefaultTuner", "ParamsTuner">>

\* the class bodies of ParamsTuner and DefaultTuner
ClassAttrs ==
    [ParamsTuner |-> [_name |-> PyStr("AbstractTuner"),
                      _best_params |-> PyNone,
                      _fit_on_holdout |-> PyBool(FALSE)],
     DefaultTuner |-> [_name |-> PyStr("DefaultTuner")]]

\* the classes of the MRO that define name, in lookup order
Definers(cd, name) ==
    SelectSeq(MRO, LAMBDA c : name \in DOMAIN cd[c])

\* hasattr(self, name): the instance dictionary first, then the MRO
HasAttr(cd, d, name) ==
    name \in DOMAIN d \/ Definers(cd, name) # <<>>

\* self.<name>, defined when HasAttr holds
GetAttr(cd, d, name) ==
    IF name \in DOMAIN d THEN d[name] ELSE cd[Head(Definers(cd, name))][name]

\* faulty variant: the assignment rebinds the class attribute
SetAttrOnClass(cd, ins, t, name, v) ==
    [classDict |-> [cd EXCEPT !["ParamsTuner"] = (name :> v) @@ @],
     inst |-> ins]

\* faulty variant: the assignment binds _name whatever the name given
SetAttrAsName(cd, ins, t, name, v) ==
    [classDict |-> cd,
     inst |-> [ins EXCEPT ![t] = ("_name" :> v) @@ @]]

\* self.<name> = v binds the name in the instance dictionary of t
SetAttr(cd, ins, t, name, v) ==
    [classDict |-> cd,
     inst |-> [ins EXCEPT ![t] = (name :> v) @@ @]]

----------------------------------------------------------------------------
(* ParamsTuner.best_params *)

UnfittedError == PyStr("AttributeError: ParamsTuner should be fitted first")

\* faulty variant: the getter reads the class attribute
best_params_class_level(cd, d) ==
    [raised |-> FALSE, value |-> cd["ParamsTuner"]["_best_params"]]

\* the getter of the property
best_params(cd, d) ==
    IF ~HasAttr(cd, d, "_best_params")
    THEN [raised |-> TRUE, value |-> UnfittedError]
    ELSE [raised |-> FALSE, value |-> GetAttr(cd, d, "_best_params")]

----------------------------------------------------------------------------
(* DefaultTuner.fit *)

\* train_valid_iterator: Optional[TrainValidIterator] = None
BindIterator(arg) == IF arg = Omitted THEN PyNone ELSE arg

\* faulty variant: the iterator is not passed on
ForwardedIteratorDropped(it) == PyNone

\* init_params_on_input(train_valid_iterator=train_valid_iterator)
ForwardedIterator(it) == it

\* faulty variant: an invocation that raised is tried once more
InvocationsWithRetry(a, it, out) ==
    IF out.raised
    THEN <<[algo |-> a, arg |-> it], [algo |-> a, arg |-> it]>>
    ELSE <<[algo |-> a, arg |-> it]>>

\* the invocations of ml_algo.init_params_on_input one fit call makes
Invocations(a, it, out) == <<[algo |-> a, arg |-> it]>>

\* faulty variant: the field is reset to None when the invocation raises
FitEffectClearOnRaise(cd, ins, t, out) ==
    IF out.raised
    THEN SetAttr(cd, ins, t, "_best_params", PyNone)
    ELSE SetAttr(cd, ins, t, "_best_params", out.value)

\* faulty variant: the result is merged into the mapping already stored
FitEffectMerge(cd, ins, t, out) ==
    IF out.raised
    THEN [classDict |-> cd, inst |-> ins]
    ELSE LET old == GetAttr(cd, ins[t], "_best_params")
         IN IF old.kind = "dict"
            THEN SetAttr(cd, ins, t, "_best_params",
                         PyDict(out.value.v @@ old.v))
            ELSE SetAttr(cd, ins, t, "_best_params", out.value)

\* self._best_params = <result>: the assignment runs only when the call
\* on its right-hand side returned
FitEffect(cd, ins, t, out) ==
    IF out.raised
    THEN [classDict |-> cd, inst |-> ins]
    ELSE SetAttr(cd, ins, t, "_best_params", out.value)

\* faulty variant: the algorithm is handed back as if fitted
FitReturnAlgo(a) == <<PyRef(a), PyNone>>

\* return None, None
FitReturn(a) == <<PyNone, PyNone>>

\* no value: the call ended by raising
NoValue == <<>>

----------------------------------------------------------------------------
(* The state machine of the tuners *)

NoReturn == [algo |-> "none", value |-> PyNone]

NoFit == [tuner |-> "none", algo |-> "none", arg |-> Omitted,
          raised |-> FALSE, result |-> PyNone, ret |-> NoValue,
          before |-> NoReturn]

NoRead == [tuner |-> "none", raised |-> FALSE, value |-> PyNone,
           fitCalledBefore |-> FALSE, atFits |-> 0]

TunerInit ==
    /\ classDict = ClassAttrs
    /\ constructed = {}
    /\ inst = [t \in Tuners |-> NoDict]
    /\ nFits = 0
    /\ fitCalled = {}
    /\ calls = [a \in Algos |-> 0]
    /\ lastCall = [algo |-> "none", arg |-> Omitted]
    /\ lastFit = NoFit
    /\ lastRead = NoRead
    /\ lastReturned = [t \in Tuners |-> NoReturn]

\* DefaultTuner(): no __init__, the instance dictionary starts empty
Construct(t) ==
    /\ t \notin constructed
    /\ constructed' = constructed \cup {t}
    /\ inst' = [inst EXCEPT ![t] = NoDict]
    /\ UNCHANGED <<classDict, nFits, fitCalled, calls, lastCall, lastFit,
                   lastRead, lastReturned, dist>>

\* t.fit(a) or t.fit(a, arg); out is what a.init_params_on_input does
Fit(t, a, arg, out) ==
    LET it == BindIterator(arg)
        invs == Invocations(a, ForwardedIterator(it), out)
        eff == FitEffect(classDict, inst, t, out)
    IN /\ t \in constructed
       /\ nFits < MaxFits
       /\ nFits' = nFits + 1
       /\ fitCalled' = fitCalled \cup {t}
       /\ calls' = [calls EXCEPT ![a] = @ + Len(invs)]
       /\ lastCall' = invs[Len(invs)]
       /\ classDict' = eff.classDict
       /\ inst' = eff.inst
       /\ lastFit' = [tuner |-> t, algo |-> a, arg |-> arg,
                      raised |-> out.raised, result |-> out.value,
                      ret |-> IF out.raised THEN NoValue ELSE FitReturn(a),
                      before |-> lastReturned[t]]
       /\ lastReturned' = IF out.raised THEN lastReturned
                          ELSE [lastReturned EXCEPT
                                  ![t] = [algo |-> a, value |-> out.value]]
       /\ UNCHANGED <<constructed, lastRead, dist>>

\* t.best_params
Read(t) ==
    LET r == best_params(classDict, inst[t])
    IN /\ t \in constructed
       /\ lastRead' = [tuner |-> t, raised |-> r.raised, value |-> r.value,
                       fitCalledBefore |-> t \in fitCalled, atFits |-> nFits]
       /\ UNCHANGED <<classDict, constructed, inst, nFits, fitCalled, calls,
                      lastCall, lastFit, lastReturned, dist>>

----------------------------------------------------------------------------
(* Distribution descriptors *)

DistNumbers == {PyInt(0), PyInt(1), PyInt(10)}
DistSteps == {Omitted, PyNone, PyInt(0), PyInt(2)}
DistLogs == {Omitted, PyBool(FALSE), PyBool(TRUE)}
OptionValues == {"a", "b"}

\* every option list of at most MaxOptions entries
OptionLists ==
    UNION {[1..n -> OptionValues] : n \in 0..MaxOptions}

\* a keyword parameter takes its default when the caller leaves it out
BindDefault(arg, default) == IF arg = Omitted THEN default ELSE arg

\* q=None
DefaultQ == PyNone

\* log=False
DefaultLog == PyBool(FALSE)

\* Choice.__init__
Choice(options) == [options |-> PyList(options)]

\* faulty variant: the ends of the range are put in order
UniformOrdered(low, high, q, log) ==
    [low |-> IF low.v <= high.v THEN low ELSE high,
     high |-> IF low.v <= high.v THEN high ELSE low,
     q |-> q, log |-> log]

\* Uniform.__init__
Uniform(low, high, q, log) ==
    [low |-> low, high |-> high, q |-> q, log |-> log]

\* Normal.__init__
Normal(low, high, q, log) ==
    [low |-> low, high |-> high, q |-> q, log |-> log]

DistInit ==
    dist = [cls |-> "none", given |-> NoDict, obj |-> NoDict]

\* Choice(options)
NewChoice(options) ==
    /\ dist' = [cls |-> "Choice",
                given |-> [options |-> PyList(options)],
                obj |-> Choice(options)]
    /\ UNCHANGED tunerVars

\* Uniform(low, high), Uniform(low, high, q=..., log=...)
NewUniform(low, high, q, log) ==
    /\ dist' = [cls |-> "Uniform",
                given |-> [low |-> low, high |-> high, q |-> q, log |-> log],
                obj |-> Uniform(low, high, BindDefault(q, DefaultQ),
                                BindDefault(log, DefaultLog))]
    /\ UNCHANGED tunerVars

\* Normal(low, high), Normal(low, high, q=..., log=...)
NewNormal(low, high, q, log) ==
    /\ dist' = [cls |-> "Normal",
                given |-> [low |-> low, high |-> high, q |-> q, log |-> log],
                obj |-> Normal(low, high, BindDefault(q, DefaultQ),
                               BindDefault(log, DefaultLog))]
    /\ UNCHANGED tunerVars

----------------------------------------------------------------------------
(* Specifications *)

Init == TunerInit /\ DistInit

Next ==
    \/ \E t \in Tuners : Construct(t)
    \/ \E t \in Tuners, a \in Algos, arg \in Iterators \cup {Omitted},
          out \in AlgoOutcomes : Fit(t, a, arg, out)
    \/ \E t \in Tuners : Read(t)

Spec == Init /\ [][Next]_vars

DistNext ==
    \/ \E options \in OptionLists : NewChoice(options)
    \/ \E low \in DistNumbers, high \in DistNumbers, q \in DistSteps,
          log \in DistLogs : NewUniform(low, high, q, log)
    \/ \E low \in DistNumbers, high \in DistNumbers, q \in DistSteps,
          log \in DistLogs : NewNormal(low, high, q, log)

SpecDist == Init /\ [][DistNext]_vars

----------------------------------------------------------------------------
(* Properties *)

\* what reading t.best_params yields in the current state
Yields(t) == best_params(classDict, inst[t])

FitStep == nFits' = nFits + 1
ReadStep == lastRead' # lastRead

\* C1: a read of best_params on a tuner on which fit has never been called
\* fails with the unfitted-state AttributeError and returns no value.
C1_UnfittedReadRaises ==
    (lastRead.tuner # "none" /\ ~lastRead.fitCalledBefore)
        => (lastRead.raised /\ lastRead.value = UnfittedError)

\* C2: when the last fit call returned and the algorithm gave it the mapping
\* P, a read of best_params on the same tuner made after that call yields
\* exactly P.
C2_ReadAfterFitYieldsP ==
    (/\ lastFit.tuner # "none"
     /\ ~lastFit.raised
     /\ lastRead.tuner = lastFit.tuner
     /\ lastRead.atFits = nFits)
        => (~lastRead.raised /\ lastRead.value = lastFit.result)

C2_Witness ==
    /\ ~lastFit.raised
    /\ lastFit.result = PyDict(("lr" :> 1) @@ ("depth" :> 2))
    /\ lastRead.tuner = lastFit.tuner
    /\ lastRead.atFits = nFits
    /\ lastRead.value = lastFit.result

\* C3: every fit call that completes returns the pair (None, None), whatever
\* the algorithm, the iterator argument and the earlier fit calls.
C3_FitReturnsNonePair ==
    (lastFit.tuner # "none" /\ ~lastFit.raised)
        => lastFit.ret = <<PyNone, PyNone>>

C3_Witness ==
    /\ nFits = 2
    /\ ~lastFit.raised
    /\ lastFit.arg = PyRef("cv1")
    /\ lastFit.before.algo \notin {"none", lastFit.algo}
    /\ lastFit.ret = <<PyNone, PyNone>>

\* C4: the algorithm of the last fit call received exactly the iterator
\* argument fit was given, and None when fit was called without one.
C4_IteratorForwarded ==
    lastFit.tuner # "none"
        => /\ lastCall.algo = lastFit.algo
           /\ lastFit.arg # Omitted => lastCall.arg = lastFit.arg
           /\ lastFit.arg = Omitted => lastCall.arg = PyNone

C4_Witness ==
    /\ lastFit.arg = PyRef("cv1")
    /\ lastCall = [algo |-> lastFit.algo, arg |-> PyRef("cv1")]

\* C5: last call wins: on every tuner best_params yields the mapping returned
\* to its most recent completed fit call, with nothing of earlier calls kept.
C5_LastCallWins ==
    \A t \in constructed :
        lastReturned[t].algo # "none"
            => Yields(t) = [raised |-> FALSE, value |-> lastReturned[t].value]

C5_Witness ==
    /\ ~lastFit.raised
    /\ lastFit.before = [algo |-> "algoA", value |-> PyDict("depth" :> 2)]
    /\ lastFit.algo = "algoB"
    /\ lastFit.result = PyDict("lr" :> 1)
    /\ Yields(lastFit.tuner).value = PyDict("lr" :> 1)

\* C7: each fit call invokes init_params_on_input of its algorithm exactly
\* once, whether the invocation returns or raises, and no other algorithm.
C7_OneInvocationPerFit ==
    [][FitStep => calls' = [calls EXCEPT ![lastFit'.algo] = @ + 1]]_vars

C7_Witness ==
    /\ nFits = 2
    /\ lastFit.raised
    /\ calls[lastFit.algo] = 1
    /\ calls["algoA"] + calls["algoB"] = 2

\* C8: a fit call whose algorithm raises ends with that error, returns no
\* value and leaves the best-params state of the tuner as it was.
C8_RaiseLeavesStateUnchanged ==
    [][(FitStep /\ lastFit'.raised)
          => /\ lastFit'.result = PyStr("AlgoError")
             /\ lastFit'.ret = NoValue
             /\ inst' = inst
             /\ classDict' = classDict
             /\ best_params(classDict', inst'[lastFit'.tuner])
                    = best_params(classDict, inst[lastFit'.tuner])]_vars

C8_Witness ==
    /\ lastFit.raised
    /\ lastFit.before.algo # "none"
    /\ Yields(lastFit.tuner).value = lastFit.before.value
    /\ "_best_params" \notin DOMAIN inst[CHOOSE u \in Tuners : u # lastFit.tuner]

\* C9: a fit call on one tuner changes neither what best_params yields on
\* any other tuner, existing or constructed later, nor the class attributes.
C9_InstancesDoNotShare ==
    [][FitStep
          => /\ classDict' = classDict
             /\ \A u \in Tuners \ {lastFit'.tuner} :
                    /\ inst'[u] = inst[u]
                    /\ best_params(classDict', inst'[u])
                           = best_params(classDict, inst[u])]_vars

C9_Witness ==
    /\ constructed = Tuners
    /\ ~lastFit.raised
    /\ lastFit.tuner = "t1"
    /\ Yields("t1").value = PyDict("lr" :> 2)
    /\ "t2" \notin fitCalled
    /\ Yields("t2").value = PyNone
    /\ classDict = ClassAttrs

\* C10: a fit call leaves the name 'DefaultTuner' and the fit-on-holdout flag
\* False of every tuner unchanged; a read of best_params changes no tuner
\* state, and two reads with no fit in between yield the same outcome.
C10_OnlyBestParamsChanges ==
    [][/\ FitStep
          => \A t \in constructed :
                 /\ GetAttr(classDict', inst'[t], "_name") = PyStr("DefaultTuner")
                 /\ GetAttr(classDict', inst'[t], "_fit_on_holdout") = PyBool(FALSE)
                 /\ DOMAIN inst'[t] \subseteq {"_best_params"}
       /\ ReadStep
          => /\ inst' = inst
             /\ classDict' = classDict
             /\ (lastRead.tuner = lastRead'.tuner /\ lastRead.atFits = nFits)
                    => /\ lastRead'.raised = lastRead.raised
                       /\ lastRead'.value = lastRead.value]_vars

C10_Witness ==
    /\ nFits > 0
    /\ ~lastFit.raised
    /\ lastRead.tuner = lastFit.tuner
    /\ lastRead.atFits = nFits
    /\ GetAttr(classDict, inst[lastFit.tuner], "_name") = PyStr("DefaultTuner")
    /\ GetAttr(classDict, inst[lastFit.tuner], "_fit_on_holdout") = PyBool(FALSE)
    /\ DOMAIN inst[lastFit.tuner] = {"_best_params"}

\* C6: a descriptor exposes the constructor arguments it was given, in the
\* same order, with q = None and log = False when they are left out.
C6_DescriptorsRoundTrip ==
    /\ dist.cls = "Choice" => dist.obj = [options |-> dist.given.options]
    /\ dist.cls \in {"Uniform", "Normal"}
          => /\ dist.obj.low = dist.given.low
             /\ dist.obj.high = dist.given.high
             /\ dist.obj.q = (IF dist.given.q = Omitted THEN PyNone
                              ELSE dist.given.q)
             /\ dist.obj.log = (IF dist.given.log = Omitted THEN PyBool(FALSE)
                                ELSE dist.given.log)
             /\ DOMAIN dist.obj = {"low", "high", "q", "log"}

C6_Witness ==
    /\ dist.cls = "Uniform"
    /\ dist.given = [low |-> PyInt(10), high |-> PyInt(1), q |-> Omitted,
                     log |-> Omitted]
    /\ dist.obj = [low |-> PyInt(10), high |-> PyInt(1), q |-> PyNone,
                   log |-> PyBool(FALSE)]

====
